---- MODULE Spec2Model ----
(***************************************************************************)
(* A model of jot's context management: the token estimator                *)
(* (internal/llm, EstimateTokens and friends), the grouping and trimming   *)
(* engine (internal/llm/trim.go) and the tool-calling loop                 *)
(* (internal/agent/agent.go, Agent.Run).                                   *)
(*                                                                         *)
(* Strings are TLA+ strings, so len(s) is Len(s).  A Message is a record   *)
(* [Role, Content, ToolCalls, ToolCallID]; a ToolCall is a record          *)
(* [ID, Name, Params]; Params (a map[string]any with string values) is a   *)
(* sequence of <<key, value>> pairs in key order, the order json.Marshal   *)
(* writes a map in.                                                        *)
(***************************************************************************)
EXTENDS Integers, Sequences, FiniteSets, TLC

VARIABLES
    \* ---- the trimming engine applied to one input (TrimSpec) ----
    input,       \* the []Message handed to groupMessages / TrimMessages
    budget,      \* the maxTokens handed to TrimMessages
    grouped,     \* what groupMessages(input) returned
    output,      \* what TrimMessages(input, budget) returned
    reoutput,    \* what TrimMessages(output, budget) returned
    tpc,         \* how far the calls above have got
    \* ---- one turn of Agent.Run (Spec) ----
    history,     \* Run's history argument (owned by the caller)
    userMessage, \* Run's userMessage argument
    maxContext,  \* Agent.MaxContextTokens
    messages,    \* Run's local working copy
    messageBudget, \* Run's messageBudget, set once per call
    round,       \* Run's loop counter i
    pc,          \* where Run is: "idle", "chat" (about to call client.Chat),
                 \* "tools" (executing resp.ToolCalls), "done" (returned)
    chats,       \* the calls of client.Chat so far, one record each: the
                 \* list sent, the response (Content, ToolCalls) and the error
    pending,     \* resp.ToolCalls not yet executed in this round
    executed,    \* the calls of executeTool so far, one record each: the tool
                 \* call and what the storage layer answered, if it was asked
    ret,         \* Run's return value [reply, history, err]
    \* ---- the token estimator applied to its inputs ----
    estimate,    \* what EstimateMessagesTokens(input) returned (TrimSpec)
    text,        \* a string handed to EstimateTokens (EstimateSpec)
    longer,      \* a string at least as long as text
    textTokens,  \* what EstimateTokens(text) returned
    longerTokens, \* what EstimateTokens(longer) returned
    epc,         \* how far the calls of EstimateTokens have got
    \* ---- Run's callers and surroundings ----
    cancelled,   \* whether the context handed to Run has been cancelled
    executedAtCancel, \* how many tools had been executed when it was cancelled
    \* ---- splitMessage (internal/discord/handlers.go) ----
    splitInput,  \* the argument s, a sequence of bytes
    splitMaxLen, \* the argument maxLen
    chunks,      \* what splitMessage returned
    spc,         \* whether splitMessage has been called
    \* ---- config.Load (config/config.go) ----
    maxContextEnv, \* the environment's MAX_CONTEXT_TOKENS, bytes; unset is empty
    \* ---- Bot.onMessage (internal/discord/handlers.go), one channel ----
    histories,   \* histories[m.ChannelID]
    hpc,         \* where each handler goroutine is
    handlerHistory, \* each handler's local history, read under the mutex
    handlerContent, \* each handler's message text (content)
    running,     \* the handler whose call of Agent.Run is shown, or 0
    received,    \* how many messages have been received
    served,      \* how many calls of Agent.Run have returned
    completed,   \* the message texts whose turn was stored
    \* ---- Scheduler.fireReminders (internal/scheduler/scheduler.go) ----
    reminders,   \* the reminders table: id -> [due, fired]
    pendingReminders, \* fireReminders' local pending, what is left of it
    sched,       \* where the polling goroutine is
    deliveries,  \* the ids of the reminders whose reply was delivered, in order
    polls,       \* how many polls have begun
    markFailures \* how often MarkReminderFired has failed

trimVars == <<input, budget, grouped, output, reoutput, tpc>>
runVars  == <<history, userMessage, maxContext, messages, messageBudget, round,
              pc, chats, pending, executed, ret>>
estVars  == <<estimate, text, longer, textTokens, longerTokens, epc>>
cancelVars == <<cancelled, executedAtCancel>>
splitVars == <<splitInput, splitMaxLen, chunks, spc>>
configVars == <<maxContextEnv>>
botVars == <<histories, hpc, handlerHistory, handlerContent, running, received,
             served, completed>>
schedVars == <<reminders, pendingReminders, sched, deliveries, polls,
               markFailures>>
outerVars == <<cancelVars, splitVars, configVars, botVars, schedVars>>
vars     == <<input, budget, grouped, output, reoutput, tpc,
              history, userMessage, maxContext, messages, messageBudget, round,
              pc, chats, pending, executed, ret,
              estimate, text, longer, textTokens, longerTokens, epc,
              cancelled, executedAtCancel, splitInput, splitMaxLen, chunks, spc,
              maxContextEnv, histories, hpc, handlerHistory, handlerContent, running,
              received, served, completed, reminders, pendingReminders, sched,
              deliveries, polls, markFailures>>

(***************************************************************************)
(* Bounds of the model.                                                    *)
(***************************************************************************)
\* longest input sequence handed to the trimming engine in TrimSpec
MaxLen == 4
\* responses with more than one tool call the transport gives in one turn
MaxMultiCall == 1
\* storage errors the tools meet in one turn
MaxStorageErrors == 1
\* the rounds of a turn, counted from the first, in which such a response
\* or such an error can come
MaxIrregularRound == 4
\* longest string handed to EstimateTokens in EstimateSpec
MaxStrLen == 48

(***************************************************************************)
(* Token estimator.                                                        *)
(***************************************************************************)
charsPerToken == 4
\* per-message overhead (role tokens, delimiters)
messageOverhead == 4
\* tool call framing overhead
toolCallOverhead == 4
\* framing added for a tool_call_id
toolResultOverhead == 2

\* a variant of EstimateTokens with a slip in it: the division rounds down
EstimateTokensRoundsDown(s) ==
    IF Len(s) = 0 THEN 0
    ELSE Len(s) \div charsPerToken

EstimateTokens(s) ==
    IF Len(s) = 0 THEN 0
    ELSE (Len(s) + charsPerToken - 1) \div charsPerToken

\* json.Marshal of a map with string values: {"k":"v","k2":"v2"}
RECURSIVE marshalPairs(_)
marshalPairs(p) ==
    IF Len(p) = 0 THEN ""
    ELSE "\"" \o p[1][1] \o "\":\"" \o p[1][2] \o "\""
         \o (IF Len(p) > 1 THEN "," ELSE "") \o marshalPairs(Tail(p))

marshalParams(p) == "{" \o marshalPairs(p) \o "}"

RECURSIVE toolCallsTokens(_)
toolCallsTokens(tcs) ==
    IF Len(tcs) = 0 THEN 0
    ELSE EstimateTokens(tcs[1].Name)
         + EstimateTokens(marshalParams(tcs[1].Params))
         + toolCallOverhead
         + toolCallsTokens(Tail(tcs))

EstimateMessageTokens(m) ==
    messageOverhead
    + EstimateTokens(m.Content)
    + toolCallsTokens(m.ToolCalls)
    + (IF m.ToolCallID # "" THEN EstimateTokens(m.ToolCallID) + toolResultOverhead
       ELSE 0)

\* a variant of EstimateMessagesTokens with a slip in it: the total is
\* overwritten, not added to
EstimateMessagesTokensKeepsLast(ms) ==
    IF Len(ms) = 0 THEN 0
    ELSE EstimateMessageTokens(ms[Len(ms)])

RECURSIVE EstimateMessagesTokens(_)
EstimateMessagesTokens(ms) ==
    IF Len(ms) = 0 THEN 0
    ELSE EstimateMessageTokens(ms[1]) + EstimateMessagesTokens(Tail(ms))

(***************************************************************************)
(* Grouping and trimming engine (internal/llm/trim.go).                    *)
(***************************************************************************)
\* the inner loop of groupMessages: the index after the run of tool results
collectResults(ms, i) ==
    LET next[k \in 1..(Len(ms) + 1)] ==
            IF k <= Len(ms) /\ ms[k].ToolCallID # "" THEN next[k + 1]
            ELSE k
    IN  next[i]

\* group.tokens += EstimateMessageTokens(...) over ms[i..j-1]
RECURSIVE groupTokens(_, _, _)
groupTokens(ms, i, j) ==
    IF i >= j THEN 0
    ELSE EstimateMessageTokens(ms[i]) + groupTokens(ms, i + 1, j)

\* the outer loop of groupMessages, from index i on
groupFrom(ms, i) ==
    LET from[k \in 1..(Len(ms) + 1)] ==
            IF k > Len(ms) THEN <<>>
            ELSE LET msg == ms[k] IN
                 IF msg.Role = "assistant" /\ Len(msg.ToolCalls) > 0
                 THEN LET j == collectResults(ms, k + 1) IN
                      <<[messages |-> SubSeq(ms, k, j - 1),
                         tokens   |-> groupTokens(ms, k, j)]>> \o from[j]
                 ELSE <<[messages |-> <<msg>>,
                         tokens   |-> EstimateMessageTokens(msg)]>> \o from[k + 1]
    IN  from[i]

(***************************************************************************)
(* Variants of groupMessages with a slip in them.  The properties below    *)
(* are re-checked with groupMessages replaced by each, to show that they   *)
(* depend on the code.                                                     *)
(***************************************************************************)
\* slip: the invocation's own cost is added to group.tokens twice
RECURSIVE groupFromOvercount(_, _)
groupFromOvercount(ms, i) ==
    IF i > Len(ms) THEN <<>>
    ELSE LET msg == ms[i] IN
         IF msg.Role = "assistant" /\ Len(msg.ToolCalls) > 0
         THEN LET j == collectResults(ms, i + 1) IN
              <<[messages |-> SubSeq(ms, i, j - 1),
                 tokens   |-> EstimateMessageTokens(msg) + groupTokens(ms, i, j)]>>
              \o groupFromOvercount(ms, j)
         ELSE <<[messages |-> <<msg>>,
                 tokens   |-> EstimateMessageTokens(msg)]>>
              \o groupFromOvercount(ms, i + 1)

groupMessagesOvercount(ms) == groupFromOvercount(ms, 1)

\* slip: a tool result that follows no invocation is skipped, not grouped
RECURSIVE groupFromSkipOrphans(_, _)
groupFromSkipOrphans(ms, i) ==
    IF i > Len(ms) THEN <<>>
    ELSE LET msg == ms[i] IN
         IF msg.Role = "assistant" /\ Len(msg.ToolCalls) > 0
         THEN LET j == collectResults(ms, i + 1) IN
              <<[messages |-> SubSeq(ms, i, j - 1),
                 tokens   |-> groupTokens(ms, i, j)]>>
              \o groupFromSkipOrphans(ms, j)
         ELSE IF msg.ToolCallID # "" THEN groupFromSkipOrphans(ms, i + 1)
         ELSE <<[messages |-> <<msg>>,
                 tokens   |-> EstimateMessageTokens(msg)]>>
              \o groupFromSkipOrphans(ms, i + 1)

groupMessagesSkipOrphans(ms) == groupFromSkipOrphans(ms, 1)

\* slip: the inner loop stops after len(msg.ToolCalls) results
RECURSIVE collectAtMost(_, _, _)
collectAtMost(ms, i, n) ==
    IF n > 0 /\ i <= Len(ms) /\ ms[i].ToolCallID # ""
    THEN collectAtMost(ms, i + 1, n - 1)
    ELSE i

RECURSIVE groupFromByCallCount(_, _)
groupFromByCallCount(ms, i) ==
    IF i > Len(ms) THEN <<>>
    ELSE LET msg == ms[i] IN
         IF msg.Role = "assistant" /\ Len(msg.ToolCalls) > 0
         THEN LET j == collectAtMost(ms, i + 1, Len(msg.ToolCalls)) IN
              <<[messages |-> SubSeq(ms, i, j - 1),
                 tokens   |-> groupTokens(ms, i, j)]>>
              \o groupFromByCallCount(ms, j)
         ELSE <<[messages |-> <<msg>>,
                 tokens   |-> EstimateMessageTokens(msg)]>>
              \o groupFromByCallCount(ms, i + 1)

groupMessagesByCallCount(ms) == groupFromByCallCount(ms, 1)

\* slip: the inner loop takes only results whose id is one of the
\* invocation's call ids
groupMessagesMatchingIds(ms) ==
    LET ids(msg) == { msg.ToolCalls[c].ID : c \in 1..Len(msg.ToolCalls) }
        matching[st \in (1..Len(ms)) \X (1..(Len(ms) + 1))] ==
            IF st[2] <= Len(ms) /\ ms[st[2]].ToolCallID \in ids(ms[st[1]])
            THEN matching[<<st[1], st[2] + 1>>]
            ELSE st[2]
        from[k \in 1..(Len(ms) + 1)] ==
            IF k > Len(ms) THEN <<>>
            ELSE LET msg == ms[k] IN
                 IF msg.Role = "assistant" /\ Len(msg.ToolCalls) > 0
                 THEN LET j == matching[<<k, k + 1>>] IN
                      <<[messages |-> SubSeq(ms, k, j - 1),
                         tokens   |-> groupTokens(ms, k, j)]>> \o from[j]
                 ELSE <<[messages |-> <<msg>>,
                         tokens   |-> EstimateMessageTokens(msg)]>> \o from[k + 1]
    IN  from[1]

groupMessages(ms) == groupFrom(ms, 1)

\* total += g.tokens over all groups
sumTokens(gs) ==
    LET total[k \in 0..Len(gs)] ==
            IF k = 0 THEN 0 ELSE total[k - 1] + gs[k].tokens
    IN  total[Len(gs)]

\* the drop loop of TrimMessages; dropUntil counts the dropped groups
dropLoop(gs, max, kept, dropUntil) ==
    LET loop[st \in Int \X (0..Len(gs))] ==
            IF st[2] < Len(gs) - 1 /\ st[1] > max
            THEN loop[<<st[1] - gs[st[2] + 1].tokens, st[2] + 1>>]
            ELSE st[2]
    IN  loop[<<kept, dropUntil>>]

\* trimmed = append(trimmed, g.messages...) over groups[dropUntil:]
rebuild(gs, dropUntil) ==
    LET rest[k \in 0..Len(gs)] ==
            IF k >= Len(gs) THEN <<>>
            ELSE gs[k + 1].messages \o rest[k + 1]
    IN  rest[dropUntil]

(***************************************************************************)
(* Variants of TrimMessages with a slip in them, used like the variants    *)
(* of groupMessages above.                                                 *)
(***************************************************************************)
\* slip: the history is cut message by message, not group by group
RECURSIVE singletons(_)
singletons(ms) ==
    IF Len(ms) = 0 THEN <<>>
    ELSE <<[messages |-> <<ms[1]>>, tokens |-> EstimateMessageTokens(ms[1])]>>
         \o singletons(Tail(ms))

TrimMessagesByMessage(ms, max) ==
    IF Len(ms) = 0 THEN ms
    ELSE LET gs    == singletons(ms)
             total == sumTokens(gs)
         IN  IF total <= max THEN ms
             ELSE rebuild(gs, dropLoop(gs, max, total, 0))

\* slip: the drop loop runs to len(groups), not len(groups)-1
RECURSIVE dropLoopNoFloor(_, _, _, _)
dropLoopNoFloor(gs, max, kept, dropUntil) ==
    IF dropUntil < Len(gs) /\ kept > max
    THEN dropLoopNoFloor(gs, max, kept - gs[dropUntil + 1].tokens, dropUntil + 1)
    ELSE dropUntil

TrimMessagesNoFloor(ms, max) ==
    IF Len(ms) = 0 THEN ms
    ELSE LET gs    == groupMessages(ms)
             total == sumTokens(gs)
         IN  IF total <= max THEN ms
             ELSE rebuild(gs, dropLoopNoFloor(gs, max, total, 0))

\* slip: an if where the drop loop should be, so at most one group is dropped
TrimMessagesDropOne(ms, max) ==
    IF Len(ms) = 0 THEN ms
    ELSE LET gs    == groupMessages(ms)
             total == sumTokens(gs)
         IN  IF total <= max THEN ms
             ELSE rebuild(gs, IF 0 < Len(gs) - 1 /\ total > max THEN 1 ELSE 0)

\* slip: the surviving groups are taken from the front, groups[:len-dropUntil]
TrimMessagesNewestFirst(ms, max) ==
    IF Len(ms) = 0 THEN ms
    ELSE LET gs    == groupMessages(ms)
             total == sumTokens(gs)
         IN  IF total <= max THEN ms
             ELSE LET dropUntil == dropLoop(gs, max, total, 0) IN
                  rebuild(SubSeq(gs, 1, Len(gs) - dropUntil), 0)

\* slip: the drop loop tests kept >= maxTokens
RECURSIVE dropLoopStrict(_, _, _, _)
dropLoopStrict(gs, max, kept, dropUntil) ==
    IF dropUntil < Len(gs) - 1 /\ kept >= max
    THEN dropLoopStrict(gs, max, kept - gs[dropUntil + 1].tokens, dropUntil + 1)
    ELSE dropUntil

TrimMessagesStrict(ms, max) ==
    IF Len(ms) = 0 THEN ms
    ELSE LET gs    == groupMessages(ms)
             total == sumTokens(gs)
         IN  IF total <= max THEN ms
             ELSE rebuild(gs, dropLoopStrict(gs, max, total, 0))

\* slip: a budget of zero or less is taken to mean "no limit"
TrimMessagesNoLimit(ms, max) ==
    IF Len(ms) = 0 \/ max <= 0 THEN ms
    ELSE LET gs    == groupMessages(ms)
             total == sumTokens(gs)
         IN  IF total <= max THEN ms
             ELSE rebuild(gs, dropLoop(gs, max, total, 0))

TrimMessages(ms, max) ==
    IF Len(ms) = 0 THEN ms
    ELSE LET trim[gs \in {groupMessages(ms)}] ==
                 LET total == sumTokens(gs) IN
                 IF total <= max THEN ms
                 ELSE rebuild(gs, dropLoop(gs, max, total, 0))
         IN  trim[groupMessages(ms)]

(***************************************************************************)
(* Messages.  Agent.Run builds three kinds of message (agent.go:30, 51,    *)
(* 56-60 and 66-70): an ordinary user or assistant message, an assistant   *)
(* message carrying tool calls, and a tool result tagged with a call id.   *)
(***************************************************************************)
userMsg(content) ==
    [Role |-> "user", Content |-> content, ToolCalls |-> <<>>, ToolCallID |-> ""]

assistantMsg(content) ==
    [Role |-> "assistant", Content |-> content, ToolCalls |-> <<>>, ToolCallID |-> ""]

invocationMsg(content, calls) ==
    [Role |-> "assistant", Content |-> content, ToolCalls |-> calls, ToolCallID |-> ""]

resultMsg(content, id) ==
    [Role |-> "user", Content |-> content, ToolCalls |-> <<>>, ToolCallID |-> id]

toolCall(id, name, params) == [ID |-> id, Name |-> name, Params |-> params]

isInvocation(m) == m.Role = "assistant" /\ Len(m.ToolCalls) > 0
isResult(m)     == m.ToolCallID # ""

(***************************************************************************)
(* TrimSpec: groupMessages and TrimMessages applied to every sequence of   *)
(* at most MaxLen messages and every budget that separates two outcomes.   *)
(***************************************************************************)
\* the messages the inputs are built from: the ones of trim_test.go
TrimMsgs ==
    { userMsg("hi"),
      assistantMsg("Done."),
      invocationMsg("", <<toolCall("call_1", "get_summary", <<>>)>>),
      invocationMsg("", <<toolCall("call_1", "list_things", << <<"status", "open">> >>),
                          toolCall("call_2", "get_time", <<>>)>>),
      resultMsg("[]", "call_1"),
      resultMsg("{\"active\":1}", "call_2") }

TrimInputs == UNION { [1..n -> TrimMsgs] : n \in 0..MaxLen }

\* the estimate of every suffix of ms, and one less; zero and a negative budget
TrimBudgets(ms) ==
    {-1, 0, 1}
    \cup { EstimateMessagesTokens(SubSeq(ms, i, Len(ms))) - d :
             i \in 1..Len(ms), d \in {0, 1} }

\* the estimator variables while no estimate has been asked for
EstIdle ==
    /\ estimate = 0
    /\ text = ""
    /\ longer = ""
    /\ textTokens = 0
    /\ longerTokens = 0
    /\ epc = "off"

\* Run's surroundings while they are not what is being looked at
CancelIdle ==
    /\ cancelled = FALSE
    /\ executedAtCancel = 0

\* splitMessage while it is not what is being looked at
SplitIdle ==
    /\ splitInput = <<>>
    /\ splitMaxLen = 1
    /\ chunks = <<>>
    /\ spc = "off"

\* the environment while config.Load is not what is being looked at
ConfigIdle ==
    /\ maxContextEnv = <<>>

\* the handler goroutines of one channel that are looked at
Handlers == {1, 2}

\* the Discord front-end before any message has arrived
BotIdle ==
    /\ histories = <<>>
    /\ hpc = [p \in Handlers |-> "idle"]
    /\ handlerHistory = [p \in Handlers |-> <<>>]
    /\ handlerContent = [p \in Handlers |-> ""]
    /\ running = 0
    /\ received = 0
    /\ served = 0
    /\ completed = {}

\* the scheduler while it is not what is being looked at
SchedIdle ==
    /\ reminders = <<>>
    /\ pendingReminders = <<>>
    /\ sched = "off"
    /\ deliveries = <<>>
    /\ polls = 0
    /\ markFailures = 0

OuterIdle ==
    /\ CancelIdle
    /\ SplitIdle
    /\ ConfigIdle
    /\ BotIdle
    /\ SchedIdle

\* the state of Agent.Run before any turn has started
RunIdle ==
    /\ history = <<>>
    /\ userMessage = ""
    /\ messages = <<>>
    /\ messageBudget = 0
    /\ round = 0
    /\ pc = "idle"
    /\ chats = <<>>
    /\ pending = <<>>
    /\ executed = <<>>
    /\ ret = [reply |-> "", history |-> <<>>, err |-> ""]

TrimInit ==
    /\ input \in TrimInputs
    /\ budget \in TrimBudgets(input)
    /\ grouped = <<>>
    /\ output = <<>>
    /\ reoutput = <<>>
    /\ tpc = "start"
    /\ maxContext = 0
    /\ RunIdle
    /\ EstIdle
    /\ OuterIdle

CallGroupMessages ==
    /\ tpc = "start"
    /\ grouped' = groupMessages(input)
    /\ tpc' = "grouped"
    /\ UNCHANGED <<input, budget, output, reoutput>>
    /\ UNCHANGED runVars
    /\ UNCHANGED estVars
    /\ UNCHANGED outerVars

CallTrimMessages ==
    /\ tpc = "grouped"
    /\ output' = TrimMessages(input, budget)
    /\ tpc' = "trimmed"
    /\ UNCHANGED <<input, budget, grouped, reoutput>>
    /\ UNCHANGED runVars
    /\ UNCHANGED estVars
    /\ UNCHANGED outerVars

CallTrimMessagesAgain ==
    /\ tpc = "trimmed"
    /\ reoutput' = TrimMessages(output, budget)
    /\ tpc' = "retrimmed"
    /\ UNCHANGED <<input, budget, grouped, output>>
    /\ UNCHANGED runVars
    /\ UNCHANGED estVars
    /\ UNCHANGED outerVars

CallEstimateMessagesTokens ==
    /\ tpc = "retrimmed"
    /\ estimate' = EstimateMessagesTokens(input)
    /\ tpc' = "estimated"
    /\ UNCHANGED <<input, budget, grouped, output, reoutput>>
    /\ UNCHANGED runVars
    /\ UNCHANGED <<text, longer, textTokens, longerTokens, epc>>
    /\ UNCHANGED outerVars

TrimNext ==
    \/ CallGroupMessages
    \/ CallTrimMessages
    \/ CallTrimMessagesAgain
    \/ CallEstimateMessagesTokens

TrimSpec == TrimInit /\ [][TrimNext]_vars

(***************************************************************************)
(* Properties of the trimming engine, checked under TrimSpec.              *)
(***************************************************************************)
Grouped == tpc \in {"grouped", "trimmed", "retrimmed"}
Trimmed == tpc \in {"trimmed", "retrimmed"}

\* the messages of the groups gs[k], k \in K, in group order
RECURSIVE pick(_, _, _)
pick(gs, K, k) ==
    IF k > Len(gs) THEN <<>>
    ELSE (IF k \in K THEN gs[k].messages ELSE <<>>) \o pick(gs, K, k + 1)

\* the position in the input of the first message of group k
RECURSIVE startOf(_, _)
startOf(gs, k) ==
    IF k <= 1 THEN 1 ELSE startOf(gs, k - 1) + Len(gs[k - 1].messages)

\* the input from the first message of group k on
suffixFrom(k) == SubSeq(input, startOf(grouped, k), Len(input))

lastGroup == grouped[Len(grouped)]

isSuffix(s, t) ==
    /\ Len(s) <= Len(t)
    /\ s = SubSeq(t, Len(t) - Len(s) + 1, Len(t))

\* C1: the output of TrimMessages holds, of every group of its input, all
\* the messages or none: it is the concatenation of some of the groups.
C1_GroupsKeptWhole ==
    Trimmed => \E K \in SUBSET (1..Len(grouped)) : output = pick(grouped, K, 1)

\* a two-message group was dropped whole and another was kept whole
C1_Witness ==
    /\ tpc = "trimmed"
    /\ Len(grouped) = 2
    /\ Len(grouped[1].messages) = 2
    /\ Len(grouped[2].messages) = 2
    /\ output = grouped[2].messages

\* C2: for a non-empty history, whatever the budget, the output is not
\* empty and ends with exactly the messages of the last group.
C2_LastGroupKept ==
    (Trimmed /\ Len(input) > 0) =>
        /\ Len(output) > 0
        /\ isSuffix(lastGroup.messages, output)

\* the last group alone is over the budget, older groups were dropped
C2_Witness ==
    /\ tpc = "trimmed"
    /\ Len(grouped) >= 2
    /\ budget < lastGroup.tokens
    /\ output = lastGroup.messages

\* C3: a history whose estimate is within the budget comes back unchanged.
C3_UnderBudgetUnchanged ==
    (Trimmed /\ EstimateMessagesTokens(input) <= budget) => output = input

\* a history of several groups whose estimate is exactly the budget
C3_Witness ==
    /\ tpc = "trimmed"
    /\ Len(grouped) >= 3
    /\ \E k \in 1..Len(grouped) : Len(grouped[k].messages) >= 2
    /\ EstimateMessagesTokens(input) = budget
    /\ output = input

\* C4: trimming a trimmed history again with the same budget changes nothing.
C4_Idempotent ==
    tpc = "retrimmed" => reoutput = output

\* the first pass dropped groups and left a history that is still over budget
C4_Witness ==
    /\ tpc = "retrimmed"
    /\ Len(output) < Len(input)
    /\ Len(output) >= 2
    /\ EstimateMessagesTokens(output) > budget
    /\ reoutput = output

\* C5: the groups, concatenated in order, are the input, and none is empty.
C5_GroupsPartitionInput ==
    Grouped =>
        /\ pick(grouped, 1..Len(grouped), 1) = input
        /\ \A k \in 1..Len(grouped) : Len(grouped[k].messages) > 0

\* a history with a three-message group between two other groups
C5_Witness ==
    /\ tpc = "grouped"
    /\ Len(grouped) = 2
    /\ Len(grouped[1].messages) = 1
    /\ Len(grouped[2].messages) = 3

\* C6: every assistant message with tool calls starts a group, which holds
\* it and the maximal run of messages with a tool_call_id that follows it;
\* every other group is a single message.
C6_GroupShape ==
    Grouped =>
        /\ \A p \in 1..Len(input) :
              isInvocation(input[p]) =>
                  \E k \in 1..Len(grouped) : startOf(grouped, k) = p
        /\ \A k \in 1..Len(grouped) :
              LET first == startOf(grouped, k)
                  n     == Len(grouped[k].messages)
              IN  IF isInvocation(input[first])
                  THEN /\ \A p \in (first + 1)..(first + n - 1) : isResult(input[p])
                       /\ first + n <= Len(input) => ~isResult(input[first + n])
                  ELSE n = 1

\* an invocation with two calls and one result, and one with no result
C6_Witness ==
    /\ tpc = "grouped"
    /\ Len(grouped) = 3
    /\ Len(grouped[1].messages[1].ToolCalls) = 2
    /\ Len(grouped[1].messages) = 2
    /\ isInvocation(grouped[2].messages[1])
    /\ Len(grouped[2].messages) = 1

\* C7: the output is a suffix of the input that starts at a group boundary.
C7_SuffixAtGroupBoundary ==
    Trimmed => \E k \in 1..(Len(grouped) + 1) : output = suffixFrom(k)

\* the oldest group went, two groups stayed
C7_Witness ==
    /\ tpc = "trimmed"
    /\ Len(grouped) = 3
    /\ Len(grouped[1].messages) = 2
    /\ output = suffixFrom(2)

\* C8: over budget, the output is the longest suffix of whole groups whose
\* estimate is within the budget, and the last group alone if there is none
\* (nothing at all for the empty history).
C8_FewestGroupsDropped ==
    (Trimmed /\ EstimateMessagesTokens(input) > budget) =>
        LET fits == { k \in 1..Len(grouped) :
                        EstimateMessagesTokens(suffixFrom(k)) <= budget }
        IN  /\ output = IF fits # {}
                        THEN suffixFrom(CHOOSE k \in fits : \A j \in fits : k <= j)
                        ELSE IF Len(input) = 0 THEN <<>>
                        ELSE lastGroup.messages
            /\ \/ EstimateMessagesTokens(output) <= budget
               \/ Len(input) = 0
               \/ output = lastGroup.messages

\* the budget is exactly the estimate of the two newest of three groups
C8_Witness ==
    /\ tpc = "trimmed"
    /\ Len(grouped) = 3
    /\ EstimateMessagesTokens(input) > budget
    /\ EstimateMessagesTokens(suffixFrom(2)) = budget
    /\ output = suffixFrom(2)

\* C9: the empty history comes back empty; a non-empty history with a budget
\* of zero or less, or less than the cost of its last group, comes back as
\* exactly the messages of its last group.
C9_TotalAndNoTruncation ==
    Trimmed =>
        /\ Len(input) = 0 => output = <<>>
        /\ (Len(input) > 0
            /\ (budget <= 0 \/ budget < EstimateMessagesTokens(lastGroup.messages)))
           => output = lastGroup.messages

\* a negative budget and a last group of two messages after older groups
C9_Witness ==
    /\ tpc = "trimmed"
    /\ budget < 0
    /\ Len(grouped) >= 2
    /\ Len(lastGroup.messages) = 2
    /\ output = lastGroup.messages

(***************************************************************************)
(* Agent.Run (internal/agent/agent.go): one turn of the tool-calling loop. *)
(* The transport (client.Chat) and the storage layer behind executeTool    *)
(* are collaborators: what they return is chosen by the environment.       *)
(***************************************************************************)
maxToolRounds == 10
\* the floor of messageBudget
minMessageBudget == 1000
\* EstimateTokens(SystemPrompt): the prompt is 2274 bytes long
systemPromptTokens == 569
\* EstimateToolsTokens(AgentTools), the 25 tools of the catalog
agentToolsTokens == 2263

fallbackReply == "I hit the maximum number of tool calls. Here's what I have so far."

\* strings.Repeat
RECURSIVE repeat(_, _)
repeat(str, n) ==
    IF n = 0 THEN ""
    ELSE LET half == repeat(str, n \div 2) IN
         half \o half \o (IF n % 2 = 1 THEN str ELSE "")

\* json.Marshal(map[string]any{"error": msg})
errorPayload(msg) == marshalParams(<< <<"error", msg>> >>)

\* what the storage layer answers to ListThings: the rows, or an error
thingsJSON == "[" \o repeat("{\"id\":1,\"title\":\"Buy milk\"},", 80) \o "{}]"
storageRows   == [result |-> thingsJSON, err |-> ""]
storageFailed == [result |-> "", err |-> "database is locked"]
StorageOutcomes == {storageRows, storageFailed}

usesStorage(name) == name = "list_things"

\* a variant of executeTool with a slip in it: the storage layer's error is
\* not looked at
executeToolDropsError(name, params, db) ==
    LET out == CASE name = "list_things" -> db
                 [] name = "get_time" ->
                        [result |-> marshalParams(<< <<"date", "2026-02-01">>,
                                                    <<"day", "Sunday">> >>),
                         err |-> ""]
                 [] OTHER ->
                        [result |-> errorPayload("unknown tool: " \o name),
                         err |-> ""]
    IN  out.result

\* executeTool, for the tools the transport asks for here; db is what the
\* storage layer answers if the tool reaches it
executeTool(name, params, db) ==
    LET out == CASE name = "list_things" -> db
                 [] name = "get_time" ->
                        [result |-> marshalParams(<< <<"date", "2026-02-01">>,
                                                    <<"day", "Sunday">> >>),
                         err |-> ""]
                 [] OTHER ->
                        [result |-> errorPayload("unknown tool: " \o name),
                         err |-> ""]
    IN  IF out.err # "" THEN errorPayload(out.err) ELSE out.result

\* the responses of the transport to its r-th call since the process
\* started that did not fail: call ids are unique
callID(r, j) == "call_" \o ToString(r) \o "_" \o ToString(j)

FinalResponses == { [Content |-> "Done.", ToolCalls |-> <<>>] }

ToolResponses(r) ==
    { [Content   |-> "",
       ToolCalls |-> <<toolCall(callID(r, 1), "list_things",
                                << <<"status", "open">> >>)>>],
      [Content   |-> "Checking.",
       ToolCalls |-> <<toolCall(callID(r, 1), "get_time", <<>>),
                       toolCall(callID(r, 2), "no_such_tool", <<>>)>>] }

\* a failed call returns no response and an error
noResponse     == [Content |-> "", ToolCalls |-> <<>>]
transportError == "transport failed"
\* the error of a call made with a cancelled context (provider.go:173, 361)
contextCanceled == "context canceled"
\* the error of a call that fails now
chatError == IF cancelled THEN contextCanceled ELSE transportError

\* the record of one call of client.Chat
chat(list, resp, err) == [sent |-> list, resp |-> resp, err |-> err]

\* the histories a caller passes in: nil (scheduler.go) or what an earlier
\* turn returned, capped by TrimMessages(newHistory, MaxContextTokens)
\* (handlers.go:67)
longQuestion == repeat("please keep all of this in mind. ", 70)
longAnswer   == repeat("noted, and here is a long answer. ", 70)

EarlierTurns ==
    { <<userMsg(longQuestion), assistantMsg(longAnswer)>>,
      <<userMsg("hi"),
        invocationMsg("", <<toolCall(callID(0, 1), "list_things", <<>>)>>),
        resultMsg(thingsJSON, callID(0, 1)),
        assistantMsg("Done.")>> }

Histories(mc) == {<<>>} \cup { TrimMessages(h, mc) : h \in EarlierTurns }

UserMessages == {"what are my todos?"}

\* the values of MAX_CONTEXT_TOKENS: negative, unset, small, and the
\* documented one
Contexts == {-1, 0, 4000, 180000}

\* the messages Run has appended in this turn, the user message included
appended == SubSeq(messages, Len(history) + 1, Len(messages))

\* how often the working history shows a response with several tool calls,
\* and a tool that failed in the storage layer
multiCalls ==
    Cardinality({ k \in 1..Len(messages) : Len(messages[k].ToolCalls) > 1 })

storageErrors ==
    Cardinality({ k \in 1..Len(messages) :
                    messages[k].Content = errorPayload(storageFailed.err) })

\* the trimming variables while Agent.Run is what is being looked at
TrimIdle ==
    /\ input = <<>>
    /\ budget = 0
    /\ grouped = <<>>
    /\ output = <<>>
    /\ reoutput = <<>>
    /\ tpc = "off"

\* agent.New: the agent is built with Config.MaxContextTokens
Init ==
    /\ TrimIdle
    /\ maxContext \in Contexts
    /\ RunIdle
    /\ EstIdle
    /\ OuterIdle

\* a variant of RunStart with a slip in it: the budget is not floored
RunStartNoFloor ==
    /\ pc = "idle"
    /\ \E h \in Histories(maxContext), u \in UserMessages :
         /\ history' = h
         /\ userMessage' = u
         /\ messages' = Append(h, userMsg(u))
    /\ LET fixedTokens == systemPromptTokens + agentToolsTokens IN
       messageBudget' = maxContext - fixedTokens
    /\ round' = 0
    /\ pc' = "chat"
    /\ UNCHANGED <<maxContext, chats, pending, executed, ret>>
    /\ UNCHANGED trimVars
    /\ UNCHANGED estVars
    /\ UNCHANGED outerVars

\* agent.go:27-37: copy the history, append the user message, set the budget
RunStart ==
    /\ pc = "idle"
    /\ \E h \in Histories(maxContext), u \in UserMessages :
         /\ history' = h
         /\ userMessage' = u
         /\ messages' = Append(h, userMsg(u))
    /\ LET fixedTokens == systemPromptTokens + agentToolsTokens IN
       messageBudget' = IF maxContext - fixedTokens < minMessageBudget
                        THEN minMessageBudget
                        ELSE maxContext - fixedTokens
    /\ round' = 0
    /\ pc' = "chat"
    /\ UNCHANGED <<maxContext, chats, pending, executed, ret>>
    /\ UNCHANGED trimVars
    /\ UNCHANGED estVars
    /\ UNCHANGED outerVars

\* a variant of ChatFinal with a slip in it: the reply is appended to the
\* trimmed list, and that list is what Run keeps and returns
ChatFinalKeepsTrimmed ==
    /\ pc = "chat"
    /\ round < maxToolRounds
    /\ ~cancelled
    /\ \E resp \in FinalResponses :
         LET trimmed == TrimMessages(messages, messageBudget)
             final   == Append(trimmed, assistantMsg(resp.Content))
         IN  /\ chats' = Append(chats, chat(trimmed, resp, ""))
             /\ messages' = final
             /\ ret' = [reply |-> resp.Content, history |-> final, err |-> ""]
    /\ pc' = "done"
    /\ UNCHANGED <<history, userMessage, maxContext, messageBudget, round,
                   pending, executed>>
    /\ UNCHANGED trimVars
    /\ UNCHANGED estVars
    /\ UNCHANGED outerVars

\* agent.go:39-53: the transport answers without tool calls
ChatFinal ==
    /\ pc = "chat"
    /\ round < maxToolRounds
    /\ ~cancelled
    /\ \E resp \in FinalResponses :
         LET final == Append(messages, assistantMsg(resp.Content)) IN
         /\ chats' = Append(chats, chat(TrimMessages(messages, messageBudget),
                                        resp, ""))
         /\ messages' = final
         /\ ret' = [reply |-> resp.Content, history |-> final, err |-> ""]
    /\ pc' = "done"
    /\ UNCHANGED <<history, userMessage, maxContext, messageBudget, round,
                   pending, executed>>
    /\ UNCHANGED trimVars
    /\ UNCHANGED estVars
    /\ UNCHANGED outerVars

\* a variant of ChatToolCalls with a slip in it: the invocation is appended
\* to the trimmed list, which replaces the working history
ChatToolCallsKeepsTrimmed ==
    /\ pc = "chat"
    /\ round < maxToolRounds
    /\ ~cancelled
    /\ \E resp \in ToolResponses(maxToolRounds * served + round + 1) :
         LET trimmed == TrimMessages(messages, messageBudget) IN
         /\ Len(resp.ToolCalls) > 1 =>
              multiCalls < MaxMultiCall /\ round < MaxIrregularRound
         /\ chats' = Append(chats, chat(trimmed, resp, ""))
         /\ messages' = Append(trimmed, invocationMsg(resp.Content, resp.ToolCalls))
         /\ pending' = resp.ToolCalls
    /\ pc' = "tools"
    /\ UNCHANGED <<history, userMessage, maxContext, messageBudget, round,
                   executed, ret>>
    /\ UNCHANGED trimVars
    /\ UNCHANGED estVars
    /\ UNCHANGED outerVars

\* a variant of ChatToolCalls with a slip in it: after the first round the
\* working history is sent as it is
ChatToolCallsSendsAll ==
    /\ pc = "chat"
    /\ round < maxToolRounds
    /\ ~cancelled
    /\ \E resp \in ToolResponses(maxToolRounds * served + round + 1) :
         /\ Len(resp.ToolCalls) > 1 =>
              multiCalls < MaxMultiCall /\ round < MaxIrregularRound
         /\ chats' = Append(chats, chat(IF round = 0
                                        THEN TrimMessages(messages, messageBudget)
                                        ELSE messages,
                                        resp, ""))
         /\ messages' = Append(messages, invocationMsg(resp.Content, resp.ToolCalls))
         /\ pending' = resp.ToolCalls
    /\ pc' = "tools"
    /\ UNCHANGED <<history, userMessage, maxContext, messageBudget, round,
                   executed, ret>>
    /\ UNCHANGED trimVars
    /\ UNCHANGED estVars
    /\ UNCHANGED outerVars

\* a variant of ChatToolCalls with a slip in it: the transport answers
\* although the context has been cancelled
ChatToolCallsIgnoresCancel ==
    /\ pc = "chat"
    /\ round < maxToolRounds
    /\ \E resp \in ToolResponses(maxToolRounds * served + round + 1) :
         /\ Len(resp.ToolCalls) > 1 =>
              multiCalls < MaxMultiCall /\ round < MaxIrregularRound
         /\ chats' = Append(chats, chat(TrimMessages(messages, messageBudget),
                                        resp, ""))
         /\ messages' = Append(messages, invocationMsg(resp.Content, resp.ToolCalls))
         /\ pending' = resp.ToolCalls
    /\ pc' = "tools"
    /\ UNCHANGED <<history, userMessage, maxContext, messageBudget, round,
                   executed, ret>>
    /\ UNCHANGED trimVars
    /\ UNCHANGED estVars
    /\ UNCHANGED outerVars

\* agent.go:39-60: the transport answers with tool calls
ChatToolCalls ==
    /\ pc = "chat"
    /\ round < maxToolRounds
    /\ ~cancelled
    /\ \E resp \in ToolResponses(maxToolRounds * served + round + 1) :
         /\ Len(resp.ToolCalls) > 1 =>
              multiCalls < MaxMultiCall /\ round < MaxIrregularRound
         /\ chats' = Append(chats, chat(TrimMessages(messages, messageBudget),
                                        resp, ""))
         /\ messages' = Append(messages, invocationMsg(resp.Content, resp.ToolCalls))
         /\ pending' = resp.ToolCalls
    /\ pc' = "tools"
    /\ UNCHANGED <<history, userMessage, maxContext, messageBudget, round,
                   executed, ret>>
    /\ UNCHANGED trimVars
    /\ UNCHANGED estVars
    /\ UNCHANGED outerVars

\* a variant of ChatError with a slip in it: the working history is handed
\* back with the error
ChatErrorReturnsHistory ==
    /\ pc = "chat"
    /\ round < maxToolRounds
    /\ chats' = Append(chats, chat(TrimMessages(messages, messageBudget),
                                   noResponse, chatError))
    /\ ret' = [reply |-> "", history |-> messages, err |-> "llm chat: " \o chatError]
    /\ pc' = "done"
    /\ UNCHANGED <<history, userMessage, maxContext, messages, messageBudget,
                   round, pending, executed>>
    /\ UNCHANGED trimVars
    /\ UNCHANGED estVars
    /\ UNCHANGED outerVars

\* agent.go:44-47: the transport fails
ChatError ==
    /\ pc = "chat"
    /\ round < maxToolRounds
    /\ chats' = Append(chats, chat(TrimMessages(messages, messageBudget),
                                   noResponse, chatError))
    /\ ret' = [reply |-> "", history |-> <<>>, err |-> "llm chat: " \o chatError]
    /\ pc' = "done"
    /\ UNCHANGED <<history, userMessage, maxContext, messages, messageBudget,
                   round, pending, executed>>
    /\ UNCHANGED trimVars
    /\ UNCHANGED estVars
    /\ UNCHANGED outerVars

\* a variant of ExecuteTool with a slip in it: the result message is made
\* from the invocation and keeps its tool calls
ExecuteToolResultKeepsCalls ==
    /\ pc = "tools"
    /\ Len(pending) > 0
    /\ LET tc == Head(pending) IN
       \E db \in StorageOutcomes :
         /\ db.err # "" => /\ usesStorage(tc.Name)
                         /\ storageErrors < MaxStorageErrors
                         /\ round < MaxIrregularRound
         /\ messages' = Append(messages,
                               [resultMsg(executeTool(tc.Name, tc.Params, db), tc.ID)
                                   EXCEPT !.ToolCalls = <<tc>>])
         /\ executed' = Append(executed, [call |-> tc, db |-> db])
    /\ pending' = Tail(pending)
    /\ IF Len(pending) = 1
       THEN round' = round + 1 /\ pc' = "chat"
       ELSE UNCHANGED <<round, pc>>
    /\ UNCHANGED <<history, userMessage, maxContext, messageBudget, chats, ret>>
    /\ UNCHANGED trimVars
    /\ UNCHANGED estVars
    /\ UNCHANGED outerVars

\* a variant of ExecuteTool with a slip in it: the calls of an invocation
\* are taken last first
ExecuteToolLastFirst ==
    /\ pc = "tools"
    /\ Len(pending) > 0
    /\ LET tc == pending[Len(pending)] IN
       \E db \in StorageOutcomes :
         /\ db.err # "" => /\ usesStorage(tc.Name)
                         /\ storageErrors < MaxStorageErrors
                         /\ round < MaxIrregularRound
         /\ messages' = Append(messages,
                               resultMsg(executeTool(tc.Name, tc.Params, db), tc.ID))
         /\ executed' = Append(executed, [call |-> tc, db |-> db])
    /\ pending' = SubSeq(pending, 1, Len(pending) - 1)
    /\ IF Len(pending) = 1
       THEN round' = round + 1 /\ pc' = "chat"
       ELSE UNCHANGED <<round, pc>>
    /\ UNCHANGED <<history, userMessage, maxContext, messageBudget, chats, ret>>
    /\ UNCHANGED trimVars
    /\ UNCHANGED estVars
    /\ UNCHANGED outerVars

\* agent.go:63-71: one iteration of the loop over resp.ToolCalls; after the
\* last one the round counter goes up (agent.go:39, i++)
ExecuteTool ==
    /\ pc = "tools"
    /\ Len(pending) > 0
    /\ LET tc == Head(pending) IN
       \E db \in StorageOutcomes :
         /\ db.err # "" => /\ usesStorage(tc.Name)
                         /\ storageErrors < MaxStorageErrors
                         /\ round < MaxIrregularRound
         /\ messages' = Append(messages,
                               resultMsg(executeTool(tc.Name, tc.Params, db), tc.ID))
         /\ executed' = Append(executed, [call |-> tc, db |-> db])
    /\ pending' = Tail(pending)
    /\ IF Len(pending) = 1
       THEN round' = round + 1 /\ pc' = "chat"
       ELSE UNCHANGED <<round, pc>>
    /\ UNCHANGED <<history, userMessage, maxContext, messageBudget, chats, ret>>
    /\ UNCHANGED trimVars
    /\ UNCHANGED estVars
    /\ UNCHANGED outerVars

\* a variant of RoundLimit with a slip in it: the list last sent to the
\* transport is returned in place of the working history
RoundLimitReturnsTrimmed ==
    /\ pc = "chat"
    /\ round >= maxToolRounds
    /\ ret' = [reply   |-> fallbackReply,
               history |-> TrimMessages(messages, messageBudget),
               err     |-> ""]
    /\ pc' = "done"
    /\ UNCHANGED <<history, userMessage, maxContext, messages, messageBudget,
                   round, chats, pending, executed>>
    /\ UNCHANGED trimVars
    /\ UNCHANGED estVars
    /\ UNCHANGED outerVars

\* a variant of RoundLimit with a slip in it: the loop's bound is compared
\* one too far
RoundLimitOffByOne ==
    /\ pc = "chat"
    /\ round > maxToolRounds
    /\ ret' = [reply |-> fallbackReply, history |-> messages, err |-> ""]
    /\ pc' = "done"
    /\ UNCHANGED <<history, userMessage, maxContext, messages, messageBudget,
                   round, chats, pending, executed>>
    /\ UNCHANGED trimVars
    /\ UNCHANGED estVars
    /\ UNCHANGED outerVars

\* a variant of RoundLimit with a slip in it: the fallback text is appended
\* to the history as an assistant message
RoundLimitAppendsReply ==
    /\ pc = "chat"
    /\ round >= maxToolRounds
    /\ ret' = [reply   |-> fallbackReply,
               history |-> Append(messages, assistantMsg(fallbackReply)),
               err     |-> ""]
    /\ pc' = "done"
    /\ UNCHANGED <<history, userMessage, maxContext, messages, messageBudget,
                   round, chats, pending, executed>>
    /\ UNCHANGED trimVars
    /\ UNCHANGED estVars
    /\ UNCHANGED outerVars

\* agent.go:39 and 74: the loop ends after maxToolRounds rounds
RoundLimit ==
    /\ pc = "chat"
    /\ round >= maxToolRounds
    /\ ret' = [reply |-> fallbackReply, history |-> messages, err |-> ""]
    /\ pc' = "done"
    /\ UNCHANGED <<history, userMessage, maxContext, messages, messageBudget,
                   round, chats, pending, executed>>
    /\ UNCHANGED trimVars
    /\ UNCHANGED estVars
    /\ UNCHANGED outerVars

Next ==
    \/ RunStart
    \/ ChatFinal
    \/ ChatToolCalls
    \/ ChatError
    \/ ExecuteTool
    \/ RoundLimit

Spec == Init /\ [][Next]_vars

(***************************************************************************)
(* CancelSpec: a turn of Agent.Run whose caller may cancel the context at   *)
(* any moment of the turn.  Run hands the context to client.Chat only      *)
(* (agent.go:44); executeTool takes none (agent.go:64).                     *)
(***************************************************************************)
Cancel ==
    /\ pc \in {"chat", "tools"}
    /\ ~cancelled
    /\ cancelled' = TRUE
    /\ executedAtCancel' = Len(executed)
    /\ UNCHANGED trimVars
    /\ UNCHANGED runVars
    /\ UNCHANGED estVars
    /\ UNCHANGED splitVars
    /\ UNCHANGED configVars
    /\ UNCHANGED botVars
    /\ UNCHANGED schedVars

CancelNext == Next \/ Cancel

CancelSpec == Init /\ [][CancelNext]_vars

(***************************************************************************)
(* splitMessage (internal/discord/handlers.go:85-103).  A Go string is a    *)
(* sequence of bytes; a byte is written as a one-character string.          *)
(***************************************************************************)
MaxSplitLen == 6
MaxSplitMaxLen == 4

newline == "\n"
SplitBytes == {"a", "b", newline}

\* strings.LastIndex(str, "\n"): the 0-based index of the last newline, or -1
LastIndex(str) ==
    LET at == { i \in 1..Len(str) : str[i] = newline }
    IN  IF at = {} THEN -1 ELSE (CHOOSE i \in at : \A j \in at : j <= i) - 1

\* a variant of splitMessage with a slip in it: the chunk ends before the
\* newline and the newline is skipped
splitMessageDropsNewline(str, maxLen) ==
    IF Len(str) <= maxLen
    THEN <<str>>
    ELSE LET split[from \in 1..(Len(str) + 1)] ==
               IF from > Len(str)
               THEN <<>>
               ELSE LET left == SubSeq(str, from, Len(str))
                        limit == IF maxLen > Len(left) THEN Len(left) ELSE maxLen
                        idx == LastIndex(SubSeq(left, 1, limit))
                    IN  IF idx > 0
                        THEN <<SubSeq(left, 1, idx)>> \o split[from + idx + 1]
                        ELSE <<SubSeq(left, 1, limit)>> \o split[from + limit]
         IN  split[1]

\* handlers.go:85-103; split[from] is the loop with s[from-1:] left
splitMessage(str, maxLen) ==
    IF Len(str) <= maxLen
    THEN <<str>>
    ELSE LET split[from \in 1..(Len(str) + 1)] ==
               IF from > Len(str)
               THEN <<>>
               ELSE LET left == SubSeq(str, from, Len(str))
                        limit == IF maxLen > Len(left) THEN Len(left) ELSE maxLen
                        idx == LastIndex(SubSeq(left, 1, limit))
                        end == IF idx > 0 THEN idx + 1 ELSE limit
                    IN  <<SubSeq(left, 1, end)>> \o split[from + end]
         IN  split[1]

SplitStrings == UNION { [1..n -> SplitBytes] : n \in 0..MaxSplitLen }

SplitInit ==
    /\ splitInput \in SplitStrings
    /\ splitMaxLen \in 1..MaxSplitMaxLen
    /\ chunks = <<>>
    /\ spc = "idle"
    /\ CancelIdle
    /\ ConfigIdle
    /\ BotIdle
    /\ SchedIdle
    /\ TrimIdle
    /\ maxContext = 0
    /\ RunIdle
    /\ EstIdle

\* handlers.go:74: splitMessage(reply, maxLen)
CallSplitMessage ==
    /\ spc = "idle"
    /\ chunks' = splitMessage(splitInput, splitMaxLen)
    /\ spc' = "split"
    /\ UNCHANGED <<splitInput, splitMaxLen>>
    /\ UNCHANGED trimVars
    /\ UNCHANGED runVars
    /\ UNCHANGED estVars
    /\ UNCHANGED cancelVars
    /\ UNCHANGED configVars
    /\ UNCHANGED botVars
    /\ UNCHANGED schedVars

SplitNext == CallSplitMessage

SplitSpec == SplitInit /\ [][SplitNext]_vars

(***************************************************************************)
(* config.Load (config/config.go:24-56) and the agent built from it        *)
(* (cmd/agent/main.go:82).  ConfigSpec: the process loads its              *)
(* configuration and then runs one turn of Agent.Run.                       *)
(***************************************************************************)
documentedDefault == 180000

digits == <<"0", "1", "2", "3", "4", "5", "6", "7", "8", "9">>
isDigit(c) == \E d \in 1..Len(digits) : digits[d] = c
digitValue(c) == (CHOOSE d \in 1..Len(digits) : digits[d] = c) - 1

\* strconv.Atoi for values that fit an int: an optional sign, then one or
\* more decimal digits
Atoi(v) ==
    LET signed == Len(v) > 0 /\ v[1] \in {"+", "-"}
        body   == IF signed THEN Tail(v) ELSE v
        value[k \in 0..Len(body)] ==
            IF k = 0 THEN 0 ELSE 10 * value[k - 1] + digitValue(body[k])
    IN  IF Len(body) = 0 \/ \E k \in 1..Len(body) : ~isDigit(body[k])
        THEN [n |-> 0, err |-> "invalid syntax"]
        ELSE [n |-> IF signed /\ v[1] = "-" THEN 0 - value[Len(body)]
                    ELSE value[Len(body)],
              err |-> ""]

\* config.go:49-56; v is os.Getenv(key)
envInt(v, fallback) ==
    IF v # <<>> /\ Atoi(v).err = "" THEN Atoi(v).n ELSE fallback

\* config.go:38
LoadMaxContextTokens(v) == envInt(v, 0)

\* the values of MAX_CONTEXT_TOKENS in the environment: unset, the
\* documented one, a small one, zero, a negative one, one that is no number
EnvValues ==
    { <<>>,
      <<"1", "8", "0", "0", "0", "0">>,
      <<"4", "0", "0", "0">>,
      <<"0">>,
      <<"-", "1">>,
      <<"1", "8", "0", "k">> }

ConfigInit ==
    /\ maxContextEnv \in EnvValues
    /\ maxContext = 0
    /\ history = <<>>
    /\ userMessage = ""
    /\ messages = <<>>
    /\ messageBudget = 0
    /\ round = 0
    /\ pc = "unloaded"
    /\ chats = <<>>
    /\ pending = <<>>
    /\ executed = <<>>
    /\ ret = [reply |-> "", history |-> <<>>, err |-> ""]
    /\ TrimIdle
    /\ EstIdle
    /\ CancelIdle
    /\ SplitIdle
    /\ BotIdle
    /\ SchedIdle

\* main.go:58 and 82: cfg := config.Load(); agent.New(..., cfg.MaxContextTokens)
Load ==
    /\ pc = "unloaded"
    /\ maxContext' = LoadMaxContextTokens(maxContextEnv)
    /\ pc' = "idle"
    /\ UNCHANGED <<history, userMessage, messages, messageBudget, round,
                   chats, pending, executed, ret>>
    /\ UNCHANGED trimVars
    /\ UNCHANGED estVars
    /\ UNCHANGED outerVars

ConfigNext == Load \/ Next

ConfigSpec == ConfigInit /\ [][ConfigNext]_vars

(***************************************************************************)
(* BotSpec: Bot.onMessage (internal/discord/handlers.go:19-77) for the     *)
(* messages of one channel.  Every message is handled in a goroutine of    *)
(* its own.  The goroutines share nothing but the histories map, which a   *)
(* handler touches twice, each time under historiesMu: to read (53-55) and *)
(* to write (69-71).  A call of Agent.Run works on the handler's own copy, *)
(* so the calls are shown one at a time, each from RunBegin to Store.      *)
(***************************************************************************)
MaxMessages == 2

\* the text of the n-th message of the channel
messageText(n) == "message " \o ToString(n)

BotInit ==
    /\ TrimIdle
    /\ maxContext \in Contexts
    /\ RunIdle
    /\ EstIdle
    /\ OuterIdle

\* handlers.go:19-55: a message for the bot arrives; the handler reads the
\* channel's history under the mutex.  The goroutines have no names: the
\* message goes to the first that is free.
Receive(p) ==
    /\ hpc[p] = "idle"
    /\ \A q \in Handlers : q < p => hpc[q] # "idle"
    /\ received < MaxMessages
    /\ received' = received + 1
    /\ handlerContent' = [handlerContent EXCEPT ![p] = messageText(received + 1)]
    /\ handlerHistory' = [handlerHistory EXCEPT ![p] = histories]
    /\ hpc' = [hpc EXCEPT ![p] = "read"]
    /\ UNCHANGED <<histories, running, served, completed>>
    /\ UNCHANGED trimVars
    /\ UNCHANGED runVars
    /\ UNCHANGED estVars
    /\ UNCHANGED <<cancelVars, splitVars, configVars, schedVars>>

\* handlers.go:57 and agent.go:27-37: the handler calls Agent.Run
RunBegin(p) ==
    /\ hpc[p] = "read"
    /\ running = 0
    /\ pc = "idle"
    /\ history' = handlerHistory[p]
    /\ userMessage' = handlerContent[p]
    /\ messages' = Append(handlerHistory[p], userMsg(handlerContent[p]))
    /\ LET fixedTokens == systemPromptTokens + agentToolsTokens IN
       messageBudget' = IF maxContext - fixedTokens < minMessageBudget
                        THEN minMessageBudget
                        ELSE maxContext - fixedTokens
    /\ round' = 0
    /\ pc' = "chat"
    /\ running' = p
    /\ hpc' = [hpc EXCEPT ![p] = "running"]
    /\ UNCHANGED <<maxContext, chats, pending, executed, ret>>
    /\ UNCHANGED <<histories, handlerHistory, handlerContent, received, served,
                   completed>>
    /\ UNCHANGED trimVars
    /\ UNCHANGED estVars
    /\ UNCHANGED <<cancelVars, splitVars, configVars, schedVars>>

\* a variant of Store with a slip in it: the stored history is capped by
\* keeping its last messages, however they are grouped
StoreLastMessages(p) ==
    /\ running = p
    /\ pc = "done"
    /\ IF ret.err # ""
       THEN UNCHANGED <<histories, completed>>
       ELSE /\ histories' = IF Len(ret.history) <= 3 THEN ret.history
                            ELSE SubSeq(ret.history, Len(ret.history) - 2,
                                        Len(ret.history))
            /\ completed' = completed \cup {handlerContent[p]}
    /\ served' = served + 1
    /\ running' = 0
    /\ hpc' = [hpc EXCEPT ![p] = "idle"]
    /\ history' = <<>>
    /\ userMessage' = ""
    /\ messages' = <<>>
    /\ messageBudget' = 0
    /\ round' = 0
    /\ pc' = "idle"
    /\ chats' = <<>>
    /\ pending' = <<>>
    /\ executed' = <<>>
    /\ ret' = [reply |-> "", history |-> <<>>, err |-> ""]
    /\ UNCHANGED <<maxContext, handlerHistory, handlerContent, received>>
    /\ UNCHANGED trimVars
    /\ UNCHANGED estVars
    /\ UNCHANGED <<cancelVars, splitVars, configVars, schedVars>>

\* handlers.go:57-77: Run has returned; on an error the handler apologises
\* and returns, else it caps the returned history and stores it under the
\* mutex, and sends the reply
Store(p) ==
    /\ running = p
    /\ pc = "done"
    /\ IF ret.err # ""
       THEN UNCHANGED <<histories, completed>>
       ELSE /\ histories' = TrimMessages(ret.history, maxContext)
            /\ completed' = completed \cup {handlerContent[p]}
    /\ served' = served + 1
    /\ running' = 0
    /\ hpc' = [hpc EXCEPT ![p] = "idle"]
    /\ history' = <<>>
    /\ userMessage' = ""
    /\ messages' = <<>>
    /\ messageBudget' = 0
    /\ round' = 0
    /\ pc' = "idle"
    /\ chats' = <<>>
    /\ pending' = <<>>
    /\ executed' = <<>>
    /\ ret' = [reply |-> "", history |-> <<>>, err |-> ""]
    /\ UNCHANGED <<maxContext, handlerHistory, handlerContent, received>>
    /\ UNCHANGED trimVars
    /\ UNCHANGED estVars
    /\ UNCHANGED <<cancelVars, splitVars, configVars, schedVars>>

RunSteps ==
    \/ ChatFinal
    \/ ChatToolCalls
    \/ ChatError
    \/ ExecuteTool
    \/ RoundLimit

\* BotSpec: the messages of the channel arrive one after the other, each
\* when the handler of the one before has returned
BotNext ==
    \/ Receive(1)
    \/ RunBegin(1)
    \/ RunSteps
    \/ Store(1)

BotSpec == BotInit /\ [][BotNext]_vars

\* ConcurrentSpec: a message may arrive while the handler of the one before
\* is still at work, as the event handlers of discordgo run concurrently
ConcurrentInit ==
    /\ TrimIdle
    /\ maxContext \in {0, documentedDefault}
    /\ RunIdle
    /\ EstIdle
    /\ OuterIdle

ConcurrentNext ==
    \/ \E p \in Handlers : Receive(p)
    \/ \E p \in Handlers : RunBegin(p)
    \/ RunSteps
    \/ \E p \in Handlers : Store(p)

ConcurrentSpec == ConcurrentInit /\ [][ConcurrentNext]_vars

(***************************************************************************)
(* SchedulerSpec: the goroutine of Scheduler.Start that calls              *)
(* fireReminders at every tick (internal/scheduler/scheduler.go:52-59,     *)
(* 148-168), and the reminders table (internal/db/queries_reminders.go).   *)
(* The ticker's loop calls fireReminders again only when it has returned.  *)
(***************************************************************************)
MaxReminders == 2
MaxPolls == 2
MaxMarkFailures == 1

ReminderIDs == 1..MaxReminders

reminderPrompt(id) == "call back customer " \o ToString(id)

\* queries_reminders.go:20-30: the ids of the rows with fired = 0 and
\* fire_at not in the future; the rows are created in the order of fire_at
ListPendingReminders(table) ==
    LET list[k \in 0..Len(table)] ==
          IF k = 0 THEN <<>>
          ELSE IF ~table[k].fired /\ table[k].due
               THEN Append(list[k - 1], k)
               ELSE list[k - 1]
    IN  list[Len(table)]

\* queries_reminders.go:45-51
MarkReminderFired(table, id) == [table EXCEPT ![id].fired = TRUE]

SchedulerInit ==
    /\ reminders \in [ReminderIDs -> [due : BOOLEAN, fired : {FALSE}]]
    /\ pendingReminders = <<>>
    /\ sched = "idle"
    /\ deliveries = <<>>
    /\ polls = 0
    /\ markFailures = 0
    /\ TrimIdle
    /\ maxContext \in {0, documentedDefault}
    /\ RunIdle
    /\ EstIdle
    /\ CancelIdle
    /\ SplitIdle
    /\ ConfigIdle
    /\ BotIdle

\* time passes and the fire_at of a reminder is reached
FireAtReached(id) ==
    /\ ~reminders[id].due
    /\ reminders' = [reminders EXCEPT ![id].due = TRUE]
    /\ UNCHANGED <<pendingReminders, sched, deliveries, polls, markFailures>>
    /\ UNCHANGED trimVars
    /\ UNCHANGED runVars
    /\ UNCHANGED estVars
    /\ UNCHANGED <<cancelVars, splitVars, configVars, botVars>>

\* scheduler.go:56-57 and 149-153: a tick; fireReminders lists the pending
\* reminders
Poll ==
    /\ sched = "idle"
    /\ polls < MaxPolls
    /\ polls' = polls + 1
    /\ pendingReminders' = ListPendingReminders(reminders)
    /\ sched' = IF ListPendingReminders(reminders) = <<>> THEN "idle" ELSE "next"
    /\ UNCHANGED <<reminders, deliveries, markFailures>>
    /\ UNCHANGED trimVars
    /\ UNCHANGED runVars
    /\ UNCHANGED estVars
    /\ UNCHANGED <<cancelVars, splitVars, configVars, botVars>>

\* scheduler.go:154-157 and agent.go:27-37: the agent is run for the next
\* reminder of the list, with no history
FireRun ==
    /\ sched = "next"
    /\ pc = "idle"
    /\ history' = <<>>
    /\ userMessage' = "A reminder you set: " \o reminderPrompt(Head(pendingReminders))
    /\ messages' = <<userMsg("A reminder you set: "
                              \o reminderPrompt(Head(pendingReminders)))>>
    /\ LET fixedTokens == systemPromptTokens + agentToolsTokens IN
       messageBudget' = IF maxContext - fixedTokens < minMessageBudget
                        THEN minMessageBudget
                        ELSE maxContext - fixedTokens
    /\ round' = 0
    /\ pc' = "chat"
    /\ sched' = "running"
    /\ UNCHANGED <<maxContext, chats, pending, executed, ret>>
    /\ UNCHANGED <<reminders, pendingReminders, deliveries, polls, markFailures>>
    /\ UNCHANGED trimVars
    /\ UNCHANGED estVars
    /\ UNCHANGED <<cancelVars, splitVars, configVars, botVars>>

\* scheduler.go:158-166: Run has returned.  On an error the reminder is left
\* as it is; else it is marked fired, which may fail and is then only
\* logged, and the reply is delivered
FireEnd ==
    /\ sched = "running"
    /\ pc = "done"
    /\ LET id == Head(pendingReminders) IN
       IF ret.err # ""
       THEN UNCHANGED <<reminders, deliveries, markFailures>>
       ELSE /\ \/ /\ reminders' = MarkReminderFired(reminders, id)
                  /\ UNCHANGED markFailures
               \/ /\ markFailures < MaxMarkFailures
                  /\ markFailures' = markFailures + 1
                  /\ UNCHANGED reminders
            /\ deliveries' = Append(deliveries, id)
    /\ pendingReminders' = Tail(pendingReminders)
    /\ sched' = IF Tail(pendingReminders) = <<>> THEN "idle" ELSE "next"
    /\ history' = <<>>
    /\ userMessage' = ""
    /\ messages' = <<>>
    /\ messageBudget' = 0
    /\ round' = 0
    /\ pc' = "idle"
    /\ chats' = <<>>
    /\ pending' = <<>>
    /\ executed' = <<>>
    /\ ret' = [reply |-> "", history |-> <<>>, err |-> ""]
    /\ UNCHANGED <<maxContext, polls>>
    /\ UNCHANGED trimVars
    /\ UNCHANGED estVars
    /\ UNCHANGED <<cancelVars, splitVars, configVars, botVars>>

SchedulerNext ==
    \/ \E id \in ReminderIDs : FireAtReached(id)
    \/ Poll
    \/ FireRun
    \/ RunSteps
    \/ FireEnd

SchedulerSpec == SchedulerInit /\ [][SchedulerNext]_vars

\* Run is straight-line code around one loop: as long as client.Chat and
\* executeTool return, its next step is taken
FairSpec == Spec /\ WF_vars(Next)

(***************************************************************************)
(* EstimateTokens on its own (internal/llm/provider.go:40-45): two strings, *)
(* the second at least as long as the first, and the estimate of each.     *)
(***************************************************************************)
EstStrings == { repeat("x", n) : n \in 0..MaxStrLen }

EstInit ==
    /\ text \in EstStrings
    /\ longer \in { s \in EstStrings : Len(s) >= Len(text) }
    /\ textTokens = 0
    /\ longerTokens = 0
    /\ estimate = 0
    /\ epc = "start"
    /\ TrimIdle
    /\ maxContext = 0
    /\ RunIdle
    /\ OuterIdle

CallEstimateTokens ==
    /\ epc = "start"
    /\ textTokens' = EstimateTokens(text)
    /\ longerTokens' = EstimateTokens(longer)
    /\ epc' = "estimated"
    /\ UNCHANGED <<estimate, text, longer>>
    /\ UNCHANGED trimVars
    /\ UNCHANGED runVars
    /\ UNCHANGED outerVars

EstNext == CallEstimateTokens

EstimateSpec == EstInit /\ [][EstNext]_vars

(***************************************************************************)
(* Properties of Agent.Run, checked under Spec.                            *)
(***************************************************************************)
\* C10: if the first response of a turn carries no tool calls, Run has
\* returned after that one transport call and without executing a tool; its
\* working history is the input history, the user message and one assistant
\* message with the response text; it returns that text, that history and
\* no error.
C10_FinalAnswerFirstRound ==
    (/\ Len(chats) >= 1
     /\ chats[1].err = ""
     /\ Len(chats[1].resp.ToolCalls) = 0)
    => /\ pc = "done"
       /\ Len(chats) = 1
       /\ executed = <<>>
       /\ messages = history \o <<userMsg(userMessage),
                                  assistantMsg(chats[1].resp.Content)>>
       /\ ret = [reply   |-> chats[1].resp.Content,
                 history |-> messages,
                 err     |-> ""]

\* a final answer in the first round of a turn whose request was trimmed
C10_Witness ==
    /\ pc = "done"
    /\ Len(chats) = 1
    /\ chats[1].err = ""
    /\ Len(chats[1].resp.ToolCalls) = 0
    /\ Len(history) >= 2
    /\ Len(chats[1].sent) < Len(history) + 1
    /\ ret.reply = "Done."

\* the results of the calls tcs are ms[p], ms[p+1], ..., in call order,
\* each tagged with its call's identifier
resultsAt(ms, p, tcs) ==
    \A j \in 1..Len(tcs) :
        /\ p + j - 1 <= Len(ms)
        /\ ms[p + j - 1].Role = "user"
        /\ ms[p + j - 1].ToolCalls = <<>>
        /\ ms[p + j - 1].ToolCallID = tcs[j].ID

\* ms from position p on is what the transport calls k, k+1, ... made Run
\* append: an invocation and its results for a response with tool calls,
\* one assistant message for a final response, nothing for a failed call
RECURSIVE exchangesAt(_, _, _)
exchangesAt(ms, p, k) ==
    IF k > Len(chats) THEN p = Len(ms) + 1
    ELSE LET c == chats[k] IN
         IF c.err # "" THEN k = Len(chats) /\ p = Len(ms) + 1
         ELSE IF Len(c.resp.ToolCalls) = 0
         THEN /\ k = Len(chats)
              /\ p = Len(ms)
              /\ ms[p] = assistantMsg(c.resp.Content)
         ELSE /\ p <= Len(ms)
              /\ ms[p] = invocationMsg(c.resp.Content, c.resp.ToolCalls)
              /\ resultsAt(ms, p + 1, c.resp.ToolCalls)
              /\ exchangesAt(ms, p + 1 + Len(c.resp.ToolCalls), k + 1)

\* ms is the input history, the user message and all the turn appended
turnShape(ms) ==
    /\ Len(ms) > Len(history)
    /\ SubSeq(ms, 1, Len(history)) = history
    /\ ms[Len(history) + 1] = userMsg(userMessage)
    /\ exchangesAt(ms, Len(history) + 2, 1)

\* the first n transport calls all came back with tool calls
toolRounds(n) ==
    /\ Len(chats) >= n
    /\ \A k \in 1..n : chats[k].err = "" /\ Len(chats[k].resp.ToolCalls) > 0

\* C11: there are never more than maxToolRounds transport calls; when all
\* maxToolRounds of them came back with tool calls and the tools have run,
\* the loop counter is at maxToolRounds, so Run leaves the loop; it has
\* then made exactly ten calls and returns the fallback text, no error, and the
\* history: the input, the user message, then the ten invocations each
\* directly followed by its results.
C11_RoundLimitReached ==
    /\ Len(chats) <= maxToolRounds
    /\ (toolRounds(maxToolRounds) /\ pc # "done") =>
           /\ Len(chats) = maxToolRounds
           /\ pc = "tools" \/ (pc = "chat" /\ round = maxToolRounds)
    /\ (toolRounds(maxToolRounds) /\ pc = "done") =>
           /\ Len(chats) = maxToolRounds
           /\ ret.reply = fallbackReply
           /\ ret.err = ""
           /\ turnShape(ret.history)
           /\ Len(executed) = Len(ret.history) - Len(history) - 1 - maxToolRounds

\* ten tool rounds, one of them with two calls, ended at the round limit
C11_Witness ==
    /\ pc = "done"
    /\ toolRounds(maxToolRounds)
    /\ multiCalls = 1
    /\ ret.reply = fallbackReply
    /\ Len(ret.history) = Len(history) + 1 + 21

\* C12: whenever Run returns without an error, the history it returns is
\* the input history unmodified, then the user message, then every message
\* the turn appended, whatever was trimmed from the lists sent.
C12_ReturnedHistoryUntrimmed ==
    (pc = "done" /\ ret.err = "") =>
        /\ turnShape(ret.history)
        /\ ret.history = messages

\* a turn with a prior history whose last request left out older messages
C12_Witness ==
    /\ pc = "done"
    /\ ret.err = ""
    /\ Len(history) >= 2
    /\ Len(chats) >= 3
    /\ Len(chats[Len(chats)].sent) + 4 < Len(ret.history)
    /\ ret.reply = "Done."


\* the calls of the first k responses, in the order the transport gave them
RECURSIVE callsUpTo(_)
callsUpTo(k) ==
    IF k = 0 THEN <<>>
    ELSE callsUpTo(k - 1) \o chats[k].resp.ToolCalls

\* the calls the dispatcher has been given so far, in order
dispatched == [j \in 1..Len(executed) |-> executed[j].call]

\* the last n messages of ms
lastOf(ms, n) == SubSeq(ms, Len(ms) - n + 1, Len(ms))

\* C13: in a tool round the invocation message carries the response's N
\* calls, the dispatcher runs once per call in the response's order, the
\* N result messages directly follow the invocation, the j-th with the
\* j-th call's id and the j-th dispatch's result, and the next transport
\* call is made only after all N results are in the history.
C13_ToolRoundOrder ==
    /\ dispatched \o pending = callsUpTo(Len(chats))
    /\ pc = "chat" => pending = <<>> /\ turnShape(messages)
    /\ pc = "tools" =>
          LET tcs == chats[Len(chats)].resp.ToolCalls
              n   == Len(tcs) - Len(pending)
          IN  /\ Len(pending) > 0
              /\ pending = SubSeq(tcs, n + 1, Len(tcs))
              /\ Len(messages) > n
              /\ messages[Len(messages) - n] = invocationMsg(chats[Len(chats)].resp.Content, tcs)
              /\ resultsAt(messages, Len(messages) - n + 1, SubSeq(tcs, 1, n))
              /\ \A j \in 1..n :
                    LET x == executed[Len(executed) - n + j] IN
                    messages[Len(messages) - n + j].Content =
                        executeTool(x.call.Name, x.call.Params, x.db)
    /\ \A k \in 2..Len(chats) :
          LET prev == chats[k - 1].resp
              n    == Len(prev.ToolCalls)
              sent == chats[k].sent
          IN  /\ Len(sent) > n
              /\ lastOf(sent, n + 1)[1] = invocationMsg(prev.Content, prev.ToolCalls)
              /\ resultsAt(sent, Len(sent) - n + 1, prev.ToolCalls)

C13_Witness ==
    /\ Len(chats) >= 3
    /\ Len(chats[2].resp.ToolCalls) = 2
    /\ Len(executed) >= 4
    /\ executed[2].call.ID # executed[3].call.ID
    /\ pc = "done"


\* the turn has ended with the transport's failure
failed == pc = "done" /\ ret.err # ""

\* the failed call is the last one, every call before it succeeded with
\* tool calls, and each of those calls has been dispatched
abortedAtFailure ==
    /\ Len(chats) >= 1
    /\ chats[Len(chats)].err # ""
    /\ \A k \in 1..(Len(chats) - 1) :
          chats[k].err = "" /\ Len(chats[k].resp.ToolCalls) > 0
    /\ pending = <<>>
    /\ dispatched = callsUpTo(Len(chats) - 1)
    /\ round = Len(chats) - 1
    /\ ret.reply = ""
    /\ ret.err = "llm chat: " \o chats[Len(chats)].err

\* C14 as stated: after a transport failure Run has aborted at once, and the
\* messages accumulated in the turn before the failure (the user message and
\* the earlier rounds' tool exchanges) are available to the caller in what
\* Run returns.
C14_AsStated ==
    failed =>
        /\ abortedAtFailure
        /\ Len(ret.history) >= Len(messages)
        /\ SubSeq(ret.history, 1, Len(messages)) = messages

\* C14, amended: after a transport failure in round k Run has aborted at
\* once (the failed call is the last transport call, only the calls of
\* rounds 1..k-1 were dispatched, the reply is empty, the error wraps the
\* transport's), and the history it returns is nil: the user message and
\* the tool exchanges that Run had accumulated are not handed back.
C14_TransportFailureAborts ==
    failed =>
        /\ abortedAtFailure
        /\ ret.history = <<>>
        /\ turnShape(messages)
        /\ Len(messages) = Len(history) + 1 + (Len(chats) - 1) + Len(executed)

C14_Witness ==
    /\ failed
    /\ Len(chats) = 3
    /\ Len(executed) >= 3
    /\ Len(messages) >= Len(history) + 6
    /\ ret.history = <<>>


\* the result messages Run has appended in this turn, in order
results == SelectSeq(appended, isResult)

\* the tools of the catalog that the transport asks for here
catalogued == {"list_things", "get_time"}

\* C15: a tool execution that fails does not end the turn. The result of
\* a call to a tool that is not in the catalog, and of a call whose storage
\* access fails, is an error payload; Run appends it as that call's result
\* message and goes on with the remaining calls and the next round; Run
\* ends with an error only when the transport has failed.
C15_ToolFailureNeverAborts ==
    /\ Len(results) = Len(executed)
    /\ \A j \in 1..Len(executed) :
          LET x == executed[j] IN
          /\ results[j].ToolCallID = x.call.ID
          /\ x.call.Name \notin catalogued =>
                results[j].Content = errorPayload("unknown tool: " \o x.call.Name)
          /\ (usesStorage(x.call.Name) /\ x.db.err # "") =>
                results[j].Content = errorPayload(x.db.err)
          /\ (usesStorage(x.call.Name) /\ x.db.err = "") =>
                results[j].Content = x.db.result
    /\ dispatched \o pending = callsUpTo(Len(chats))
    /\ pc = "done" =>
          /\ pending = <<>>
          /\ ret.err # "" <=> chats[Len(chats)].err # ""

C15_Witness ==
    /\ pc = "done"
    /\ ret.err = ""
    /\ ret.reply = "Done."
    /\ Len(executed) >= 4
    /\ executed[1].db.err # ""
    /\ results[1].Content = errorPayload(storageFailed.err)
    /\ executed[3].call.Name = "no_such_tool"
    /\ results[3].Content = errorPayload("unknown tool: no_such_tool")


\* the three ways a turn ends
finalAnswer ==
    /\ chats[Len(chats)].err = ""
    /\ Len(chats[Len(chats)].resp.ToolCalls) = 0
    /\ ret.err = ""
    /\ ret.reply = chats[Len(chats)].resp.Content

roundLimitReached ==
    /\ toolRounds(maxToolRounds)
    /\ ret.err = ""
    /\ ret.reply = fallbackReply

transportFailed ==
    /\ chats[Len(chats)].err # ""
    /\ ret.err # ""
    /\ ret.reply = ""

outcomes ==
    Cardinality({ o \in {"final", "limit", "error"} :
                    \/ o = "final" /\ finalAnswer
                    \/ o = "limit" /\ roundLimitReached
                    \/ o = "error" /\ transportFailed })

\* C16: as long as every transport call and every tool execution returns,
\* a turn that has started ends; it ends in exactly one of final answer,
\* round limit reached and transport error, after at least one and at most
\* maxToolRounds transport calls, and once it has ended no transport call
\* and no tool execution is made.
C16_TurnTerminates ==
    /\ (pc = "chat" \/ pc = "tools") ~> (pc = "done")
    /\ [](Len(chats) <= maxToolRounds)
    /\ [](pc = "done" => Len(chats) >= 1 /\ outcomes = 1)
    /\ [][pc = "done" => pc' = "done" /\ chats' = chats /\ executed' = executed]_vars

C16_Witness ==
    /\ pc = "done"
    /\ Len(chats) = maxToolRounds
    /\ transportFailed
    /\ Len(executed) = maxToolRounds


\* the length of the working history at the start of round k: the caller's
\* history, the user message, and the invocation and results of each
\* earlier round
startLen(k) == Len(history) + 1 + (k - 1) + Len(callsUpTo(k - 1))

\* the working history at the start of round k
workingAt(k) == SubSeq(messages, 1, startLen(k))

\* C17: in every state the list most recently given to the transport, in
\* round r, is TrimMessages of the working history as it stood at the start
\* of round r, under the turn's message budget, and it fits the budget or
\* consists of a single group. (The records of earlier rounds do not change,
\* and each was the most recent one when it was made.)
C17_SentListIsTrimmedHistory ==
    Len(chats) >= 1 =>
          LET sent == chats[Len(chats)].sent IN
          /\ startLen(Len(chats)) <= Len(messages)
          /\ workingAt(Len(chats))[Len(history) + 1] = userMsg(userMessage)
          /\ sent = TrimMessages(workingAt(Len(chats)), messageBudget)
          /\ \/ EstimateMessagesTokens(sent) <= messageBudget
             \/ Len(groupMessages(sent)) = 1

C17_Witness ==
    /\ Len(chats) >= 4
    /\ Len(chats[2].sent) = startLen(2)
    /\ Len(chats[4].sent) < startLen(4)
    /\ Len(groupMessages(chats[4].sent)) > 1
    /\ EstimateMessagesTokens(workingAt(4)) > messageBudget
    /\ EstimateMessagesTokens(chats[4].sent) <= messageBudget


\* the larger of two integers
larger(a, b) == IF a >= b THEN a ELSE b

\* C18: the message budget of a turn is the larger of MaxContextTokens less
\* the estimates of the system prompt and of the tool catalog, and 1000,
\* whatever MaxContextTokens is (zero and negative included); it is set
\* once, when the turn starts, and is the same in every round.
C18_MessageBudget ==
    /\ [](pc # "idle" =>
            /\ messageBudget =
                   larger(maxContext - systemPromptTokens - agentToolsTokens, 1000)
            /\ messageBudget >= 1000)
    /\ [][pc # "idle" =>
            messageBudget' = messageBudget /\ maxContext' = maxContext]_vars

C18_Witness ==
    /\ maxContext < 0
    /\ messageBudget = 1000
    /\ round >= 2
    /\ Len(chats) >= 3
    /\ Len(chats[3].sent) < startLen(3)


\* C19: EstimateTokens(s) is the length of s divided by four, rounded up:
\* zero for the empty string, never negative, no smaller for a longer
\* string; lengths 2, 4, 5 and 44 give 1, 1, 2 and 11.
C19_EstimateTokensCeiling ==
    epc = "estimated" =>
        /\ 4 * textTokens >= Len(text)
        /\ 4 * (textTokens - 1) < Len(text)
        /\ Len(text) = 0 => textTokens = 0
        /\ textTokens >= 0
        /\ textTokens <= longerTokens
        /\ Len(text) = 2 => textTokens = 1
        /\ Len(text) = 4 => textTokens = 1
        /\ Len(text) = 5 => textTokens = 2
        /\ Len(text) = 44 => textTokens = 11

C19_Witness ==
    /\ epc = "estimated"
    /\ Len(text) = 44
    /\ textTokens = 11
    /\ Len(longer) = 45
    /\ longerTokens = 12


\* the estimates of the messages ms[1..k], one by one, added up
perMessage(ms) ==
    LET upTo[k \in 0..Len(ms)] ==
            IF k = 0 THEN 0 ELSE upTo[k - 1] + EstimateMessageTokens(ms[k])
    IN  upTo[Len(ms)]

\* C20: EstimateMessagesTokens of a history is the sum of
\* EstimateMessageTokens over its messages; it is additive over
\* concatenation (for every cut of the history into two parts, the
\* estimates of the parts add up to the estimate of the whole); and the
\* costs of the groups of the history add up to it.
C20_EstimateAdditive ==
    tpc = "estimated" =>
        /\ estimate = perMessage(input)
        /\ \A k \in 0..Len(input) :
              EstimateMessagesTokens(SubSeq(input, 1, k))
                + EstimateMessagesTokens(SubSeq(input, k + 1, Len(input)))
              = estimate
        /\ sumTokens(grouped) = estimate

C20_Witness ==
    /\ tpc = "estimated"
    /\ Len(input) >= 4
    /\ Len(grouped) >= 2
    /\ Len(grouped) < Len(input)
    /\ estimate = sumTokens(grouped)
    /\ estimate > 4 * Len(input)


\* the list ms holds the user message that started the turn
holdsUserMessage(ms) ==
    \E i \in 1..Len(ms) : ms[i] = userMsg(userMessage)

\* C25: in every round of a turn, the rounds after tool results have been
\* appended included, the list given to the transport holds the user
\* message that started the turn.
C25_ActiveTurnKept ==
    \A k \in 1..Len(chats) : holdsUserMessage(chats[k].sent)


\* the identifiers of the calls of an invocation
callIDs(msg) == { msg.ToolCalls[c].ID : c \in 1..Len(msg.ToolCalls) }

\* C26 as stated: every message that groupMessages puts in an invocation's
\* group after the invocation carries the id of one of the invocation's
\* calls, and a following message whose id matches none of them is left
\* out of the group.
C26_AsStated ==
    Grouped =>
        \A k \in 1..Len(grouped) :
            LET g == grouped[k].messages IN
            isInvocation(g[1]) =>
                \A p \in 2..Len(g) : g[p].ToolCallID \in callIDs(g[1])

\* C26, amended: groupMessages puts in an invocation's group the whole
\* unbroken run of messages with a non-empty tool_call_id that follows the
\* invocation; the ids are not compared with those of the invocation's
\* calls, so a result whose id matches none of them is taken into the
\* group as well, and the group ends only at a message without a
\* tool_call_id or at the end of the history.
C26_GroupTakesEveryResult ==
    Grouped =>
        \A k \in 1..Len(grouped) :
            LET first == startOf(grouped, k)
                n     == Len(grouped[k].messages)
            IN  isInvocation(input[first]) =>
                    \A p \in (first + 1)..Len(input) :
                        (\A q \in (first + 1)..p : input[q].ToolCallID # "")
                            <=> p <= first + n - 1

\* an invocation whose only call is call_1, grouped with a result for call_2
C26_Witness ==
    /\ tpc = "grouped"
    /\ Len(grouped) >= 1
    /\ isInvocation(grouped[1].messages[1])
    /\ callIDs(grouped[1].messages[1]) = {"call_1"}
    /\ Len(grouped[1].messages) = 2
    /\ grouped[1].messages[2].ToolCallID = "call_2"


\* the turn has returned without an error
returned == pc = "done" /\ ret.err = ""

\* the last message of a non-empty list
lastMsg(ms) == ms[Len(ms)]

\* C28 as stated: a turn that returns without error has extended the
\* history by the user message, the tool exchanges, and a final assistant
\* message without tool calls that carries the returned text, at the round
\* limit too.
C28_AsStated ==
    returned =>
        /\ turnShape(ret.history)
        /\ lastMsg(ret.history) = assistantMsg(ret.reply)

\* C28, amended: a turn that returns without error has extended the history
\* by the user message and zero or more invocation-plus-results exchanges;
\* when it ends with a final answer, the last message is an assistant
\* message without tool calls that carries the returned text; when it ends
\* at the round limit nothing more is appended: the last message is the
\* last result of the tenth round, and the fallback text is in no message.
C28_ReturnedHistoryEnding ==
    returned =>
        /\ turnShape(ret.history)
        /\ Len(chats[Len(chats)].resp.ToolCalls) = 0 =>
              /\ lastMsg(ret.history) = assistantMsg(ret.reply)
              /\ ret.reply = chats[Len(chats)].resp.Content
        /\ Len(chats[Len(chats)].resp.ToolCalls) > 0 =>
              LET tcs == chats[Len(chats)].resp.ToolCalls IN
              /\ Len(chats) = maxToolRounds
              /\ ret.reply = fallbackReply
              /\ isResult(lastMsg(ret.history))
              /\ lastMsg(ret.history).ToolCallID = tcs[Len(tcs)].ID
              /\ \A i \in 1..Len(ret.history) :
                    ret.history[i].Content # fallbackReply

C28_Witness ==
    /\ returned
    /\ Len(chats) = maxToolRounds
    /\ ret.reply = fallbackReply
    /\ lastMsg(ret.history).Role = "user"
    /\ lastMsg(ret.history).ToolCallID = callID(maxToolRounds, 1)


\* the three kinds of message
ordinaryKind(m)   == Len(m.ToolCalls) = 0 /\ m.ToolCallID = ""
invocationKind(m) == Len(m.ToolCalls) > 0 /\ m.ToolCallID = ""
resultKind(m)     == Len(m.ToolCalls) = 0 /\ m.ToolCallID # ""

\* m is of exactly one of the three kinds
oneKind(m) ==
    Cardinality({ kind \in {"ordinary", "invocation", "result"} :
                    \/ kind = "ordinary" /\ ordinaryKind(m)
                    \/ kind = "invocation" /\ invocationKind(m)
                    \/ kind = "result" /\ resultKind(m) }) = 1

allOneKind(ms) == \A i \in 1..Len(ms) : oneKind(ms[i])

\* every call the transport has asked for has a non-empty identifier
idsNonEmpty ==
    \A k \in 1..Len(chats) :
        \A c \in 1..Len(chats[k].resp.ToolCalls) :
            chats[k].resp.ToolCalls[c].ID # ""

\* C27: if every message of the history passed in is of exactly one of the
\* kinds ordinary, invocation and result, and the transport's call
\* identifiers are not empty, then so is every message of the working
\* history in every round, of the list given to the transport, and of the
\* history Run returns.
C27_MessageKindsPreserved ==
    (allOneKind(history) /\ idsNonEmpty) =>
        /\ allOneKind(messages)
        /\ Len(chats) >= 1 => allOneKind(chats[Len(chats)].sent)
        /\ allOneKind(ret.history)

C27_Witness ==
    /\ returned
    /\ Len(history) = 4
    /\ Len(chats) >= 3
    /\ multiCalls = 1
    /\ \E i \in 1..Len(ret.history) : invocationKind(ret.history[i])
    /\ \E i \in 1..Len(ret.history) : resultKind(ret.history[i])
    /\ ordinaryKind(lastMsg(ret.history))

(***************************************************************************)
(* C23 -- context cancellation during a turn (CancelSpec)                  *)
(***************************************************************************)
cancelError == "llm chat: " \o contextCanceled
newChat == Len(chats') > Len(chats)
newTool == Len(executed') > Len(executed)

\* C23 as stated: once the context is cancelled no tool is executed any more
\* and Run ends with the transport's error.
C23_AsStated ==
    cancelled =>
        /\ Len(executed) = executedAtCancel
        /\ pc = "done" => ret.err = cancelError

\* C23: once the context is cancelled during a turn no transport call
\* succeeds any more: the next transport call, if the turn still makes one,
\* aborts with the context's error, Run returns that error with no reply and
\* no history, and nothing runs after it.  Until that call Run only executes
\* the tool calls still pending from the round in progress, in their order;
\* a turn that has used up its rounds returns the round-limit reply instead.
C23_CancelledTurnStops ==
    [][cancelled =>
        /\ cancelled'
        /\ newChat =>
              /\ chats' = Append(chats, chat(chats'[Len(chats')].sent,
                                             noResponse, contextCanceled))
              /\ pc' = "done"
              /\ ret' = [reply |-> "", history |-> <<>>, err |-> cancelError]
              /\ executed' = executed
        /\ newTool =>
              /\ pc = "tools"
              /\ Len(pending) > 0
              /\ executed'[Len(executed')].call = Head(pending)
              /\ pending' = Tail(pending)
              /\ chats' = chats
        /\ (pc' = "done" /\ pc # "done") =>
              \/ ret'.err = cancelError /\ newChat
              \/ /\ ret' = [reply |-> fallbackReply, history |-> messages,
                             err |-> ""]
                 /\ round >= maxToolRounds
                 /\ ~newChat
        /\ pc = "done" => UNCHANGED runVars
    ]_vars

\* a turn cancelled while tool calls were pending: they were executed, then
\* the transport call of the next round aborted and Run returned its error
C23_Witness ==
    /\ cancelled
    /\ pc = "done"
    /\ ret.err = cancelError
    /\ Len(executed) > executedAtCancel
    /\ Len(chats) >= 2
    /\ chats[Len(chats)].err = contextCanceled
(***************************************************************************)
(* C29 -- splitMessage partitions its argument (SplitSpec)                 *)
(***************************************************************************)
concat(cs) ==
    LET joined[k \in 0..Len(cs)] ==
          IF k = 0 THEN <<>> ELSE joined[k - 1] \o cs[k]
    IN  joined[Len(cs)]

\* C29: for every s and every maxLen >= 1 splitMessage returns (so its loop
\* ends, after at most one round per byte) chunks whose concatenation is s,
\* each at most maxLen bytes long, none of them empty except the one empty
\* chunk returned for the empty string.
C29_SplitPartitions ==
    spc = "split" =>
        /\ concat(chunks) = splitInput
        /\ \A k \in 1..Len(chunks) : Len(chunks[k]) <= splitMaxLen
        /\ IF splitInput = <<>>
           THEN chunks = << <<>> >>
           ELSE /\ \A k \in 1..Len(chunks) : chunks[k] # <<>>
                /\ Len(chunks) <= Len(splitInput)

\* a string split once after a newline, where the chunk is shorter than
\* maxLen, and once at maxLen, where the rest began with a newline
C29_Witness ==
    /\ spc = "split"
    /\ Len(chunks) >= 3
    /\ \E k \in 1..Len(chunks) :
         /\ Len(chunks[k]) < splitMaxLen
         /\ chunks[k][Len(chunks[k])] = newline
         /\ k < Len(chunks)
    /\ \E k \in 1..Len(chunks) :
         /\ Len(chunks[k]) = splitMaxLen
         /\ chunks[k][1] = newline
         /\ chunks[k][Len(chunks[k])] # newline
(***************************************************************************)
(* C22 -- the default of MAX_CONTEXT_TOKENS (ConfigSpec)                   *)
(***************************************************************************)
loaded == pc # "unloaded"
started == pc \notin {"unloaded", "idle"}

\* C22: when MAX_CONTEXT_TOKENS is not set, Config.MaxContextTokens is the
\* documented default 180000, and Agent.Run trims its requests to that
\* budget less the fixed cost of system prompt and tool catalogue.
C22_DocumentedDefault ==
    maxContextEnv = <<>> =>
        /\ loaded => maxContext = documentedDefault
        /\ started => messageBudget =
                         documentedDefault - (systemPromptTokens + agentToolsTokens)
(***************************************************************************)
(* C21 -- two messages on one channel (ConcurrentSpec)                     *)
(***************************************************************************)
holds(ms, m) == \E i \in 1..Len(ms) : ms[i] = m
allIdle == \A p \in Handlers : hpc[p] = "idle"

\* C21: with a budget that makes no trimming necessary, once the handlers
\* of the channel's messages have returned, the stored history holds the
\* user message of every turn that was stored: no turn is lost to an
\* overwrite by a concurrent one.
C21_NoLostTurn ==
    (maxContext = documentedDefault /\ allIdle) =>
        \A u \in completed : holds(histories, userMsg(u))
(***************************************************************************)
(* C24 -- tool calls and results stay paired over the turns (BotSpec)      *)
(***************************************************************************)
\* the result at i follows an invocation with nothing but results of that
\* invocation's calls between them
pairedResult(ms, i) ==
    \E j \in 1..(i - 1) :
        /\ isInvocation(ms[j])
        /\ \A k \in (j + 1)..i :
             isResult(ms[k]) /\ ms[k].ToolCallID \in callIDs(ms[j])

\* the invocation at j is followed by one result per call, and no more
pairedInvocation(ms, j) ==
    LET n == Len(ms[j].ToolCalls) IN
        /\ j + n <= Len(ms)
        /\ \A c \in 1..n : ms[j + c].ToolCallID = ms[j].ToolCalls[c].ID
        /\ j + n < Len(ms) => ~isResult(ms[j + n + 1])

paired(ms) ==
    \A i \in 1..Len(ms) :
        /\ isResult(ms[i]) => pairedResult(ms, i)
        /\ isInvocation(ms[i]) => pairedInvocation(ms, i)

\* C24: from an empty stored history, over the turns of a channel whose
\* handler stores what Run returned, capped by TrimMessages, every list
\* given to the transport is paired, and so is the stored history.
C24_SentListsPaired ==
    /\ Len(chats) >= 1 => paired(chats[Len(chats)].sent)
    /\ paired(histories)

\* a later turn: the stored history was capped and begins with a tool round
\* of the turn before, and the list sent now was trimmed again and holds an
\* invocation of that turn and one of this turn
C24_Witness ==
    /\ served >= 1
    /\ Len(chats) >= 2
    /\ Len(history) >= 2
    /\ isInvocation(history[1])
    /\ LET sent    == chats[Len(chats)].sent
           dropped == Len(messages) - Len(sent)
       IN  /\ 0 < dropped
           /\ dropped < Len(history)
           /\ isInvocation(sent[1])
           /\ \E k \in (Len(history) - dropped + 1)..Len(sent) :
                isInvocation(sent[k]) /\ Len(sent[k].ToolCalls) > 1
(***************************************************************************)
(* C30 -- reminders are one-shot (SchedulerSpec)                           *)
(***************************************************************************)
timesDelivered(id) ==
    Cardinality({ k \in 1..Len(deliveries) : deliveries[k] = id })

\* C30: over any sequence of polls every reminder is delivered at most
\* once, and a reminder whose reply has been delivered is marked fired.
C30_OneShot ==
    \A id \in ReminderIDs :
        /\ timesDelivered(id) <= 1
        /\ timesDelivered(id) >= 1 => reminders[id].fired
====
